---- MODULE Spec2Model ----
(***************************************************************************)
(* W29C020C flash programmer (flash_programmer.ino, ATmega32A).            *)
(*                                                                         *)
(* The firmware is single threaded.  The model executes it one statement   *)
(* at a time: pc names the source line about to run, stack holds the       *)
(* return points of the calls in progress, reg holds the eight I/O         *)
(* registers the code writes, and the remaining variables are the locals   *)
(* of the functions, the serial stream in both directions, a model of the  *)
(* flash chip that sits on the bus, and history variables that record      *)
(* what happened on the bus.                                               *)
(***************************************************************************)
EXTENDS Integers, Sequences, FiniteSets, TLC

VARIABLES
    reg,        \* I/O registers DDRA..DDRD, PORTA..PORTD
    pc,         \* the statement about to execute
    stack,      \* return points of the calls in progress
    rx,         \* serial bytes not yet read by the firmware
    tx,         \* serial output of the current command, one entry per print
    cmd,        \* loop(): cmd
    page,       \* loop(): page, and the page parameter of the callee
    buffer,     \* writePageHex(): buffer[PAGE_SIZE]
    i,          \* writePageHex(): byte i
    h,          \* writePageHex(): h
    l,          \* writePageHex(): l
    wp,         \* writePage(): address, src, i
    wb,         \* writeByte(): address, data
    rb,         \* readByte(): address, data
    dp,         \* dumpPage(): i, rowLength, data
    flash,      \* the flash chip: command state, page latch, cells
    ownLog,     \* history: captureOwnership / releaseOwnership calls
    bus,        \* history: bus cycles and long delays of the current command
    cyc,        \* history: register writes and delays of the current cycle
    cmdLog,     \* history: the commands read so far: character, page selector, page
    payload     \* history: the serial bytes the last w command consumed

vars == <<reg, pc, stack, rx, tx, cmd, page, buffer, i, h, l, wp, wb, rb, dp,
          flash, ownLog, bus, cyc, cmdLog, payload>>

locals == <<cmd, page, buffer, i, h, l, wp, wb, rb, dp>>
hist   == <<ownLog, bus, cyc, cmdLog, payload>>

\* number of command characters read so far
ncmd == Len(cmdLog)

-----------------------------------------------------------------------------
(* Program constants *)

PAGE_SIZE == 128

FLASH_CE == 4
FLASH_OE == 8
FLASH_WE == 16
BUFFER_OE == 32

(* Bound of the model: the number of commands in a serial stream *)
MaxCmds == 2

-----------------------------------------------------------------------------
(* 8-bit register arithmetic *)

Pow2(k) == IF k = 0 THEN 1 ELSE IF k = 1 THEN 2 ELSE IF k = 2 THEN 4
           ELSE IF k = 3 THEN 8 ELSE IF k = 4 THEN 16 ELSE IF k = 5 THEN 32
           ELSE IF k = 6 THEN 64 ELSE 128

Bit(v, k) == (v \div Pow2(k)) % 2

\* v | m on a byte
BitOr(v, m) ==
    LET f[k \in 0..8] ==
          IF k = 8 THEN 0
          ELSE (IF Bit(v, k) = 1 \/ Bit(m, k) = 1 THEN Pow2(k) ELSE 0) + f[k+1]
    IN  f[0]

\* v & ~m on a byte
BitAndNot(v, m) ==
    LET f[k \in 0..8] ==
          IF k = 8 THEN 0
          ELSE (IF Bit(v, k) = 1 /\ Bit(m, k) = 0 THEN Pow2(k) ELSE 0) + f[k+1]
    IN  f[0]

\* conversion of an int to byte / uint8_t
ToByte(v) == v % 256

\* is every bit of mask m set in v
Has(v, m) == BitAndNot(m, v) = 0

\* is no bit of mask m set in v
Clear(v, m) == BitAndNot(v, m) = v

-----------------------------------------------------------------------------
(* The registers, by their source names *)

DDRA == reg.DDRA
DDRB == reg.DDRB
DDRC == reg.DDRC
DDRD == reg.DDRD
PORTA == reg.PORTA
PORTB == reg.PORTB
PORTC == reg.PORTC
PORTD == reg.PORTD

\* The pins as the board sees them.  A port D pin is driven by the
\* controller when its DDRD bit is set; its level is then its PORTD bit.
DrivenLow(m)  == Has(DDRD, m) /\ Clear(PORTD, m)
DrivenHigh(m) == Has(DDRD, m) /\ Has(PORTD, m)

\* the 16-bit address the controller puts on ports B (high) and A (low)
AddrBus == PORTB * 256 + PORTA

-----------------------------------------------------------------------------
(* ASCII *)

Ascii == [c \in {"*", "/", "0", "3", "9", "?", "A", "B", "D", "E", "F", "G",
                 "a", "d", "e", "f", "g", "w", "x"} |->
            CASE c = "*" -> 42 [] c = "/" -> 47 [] c = "0" -> 48
              [] c = "3" -> 51 [] c = "9" -> 57 [] c = "?" -> 63
              [] c = "A" -> 65 [] c = "B" -> 66 [] c = "D" -> 68
              [] c = "E" -> 69 [] c = "F" -> 70 [] c = "G" -> 71
              [] c = "a" -> 97 [] c = "d" -> 100 [] c = "e" -> 101
              [] c = "f" -> 102 [] c = "g" -> 103 [] c = "w" -> 119
              [] c = "x" -> 120]

Ord(c) == Ascii[c]

\* a sequence of one-character strings as a sequence of bytes
Bytes(s) == [k \in DOMAIN s |-> Ord(s[k])]

\* n repetitions of the sequence s
Rep(s, n) == [k \in 1..(n * Len(s)) |-> s[((k - 1) % Len(s)) + 1]]

-----------------------------------------------------------------------------
(* Pure functions of the firmware *)

\* ascToNibble without the +10 of the lower-case digits
ascToNibble_lower(v) ==
    IF v >= Ord("0") /\ v <= Ord("9") THEN v - Ord("0")
    ELSE IF v >= Ord("a") /\ v <= Ord("f") THEN v - Ord("a")
    ELSE IF v >= Ord("A") /\ v <= Ord("F") THEN v - Ord("A") + 10
    ELSE 0

\* byte ascToNibble(byte v)
ascToNibble(v) ==
    IF v >= Ord("0") /\ v <= Ord("9") THEN v - Ord("0")
    ELSE IF v >= Ord("a") /\ v <= Ord("f") THEN v - Ord("a") + 10
    ELSE IF v >= Ord("A") /\ v <= Ord("F") THEN v - Ord("A") + 10
    ELSE 0

\* (h<<4)|l stored into a byte; h and l are bytes
PackNibbles(hi, lo) == BitOr(ToByte(hi * 16), lo)

\* const char hex[] = "0123456789ABCDEF"
hex == <<"0", "1", "2", "3", "4", "5", "6", "7",
         "8", "9", "A", "B", "C", "D", "E", "F">>

\* HexStr with the two digits in the wrong order
HexStr_swapped(data) == hex[(data % 16) + 1] \o hex[(data \div 16) + 1] \o " "

\* the string dumpPage prints for one byte: str[0], str[1], ' '
HexStr(data) == hex[(data \div 16) + 1] \o hex[(data % 16) + 1] \o " "

\* Serial.print of a byte prints it in decimal
RECURSIVE DecStr(_)
DecStr(n) == IF n < 10 THEN hex[n + 1]
             ELSE DecStr(n \div 10) \o hex[(n % 10) + 1]

\* PageBase with the page index used as the address
PageBase_index(p) == p % 65536

\* page * PAGE_SIZE is computed in 16-bit int and passed as uint16_t
PageBase(p) == (p * PAGE_SIZE) % 65536

-----------------------------------------------------------------------------
(* The flash chip on the bus (W29C020C command protocol, header comment of *)
(* the source: three unlock writes, then byte loads into one 128-byte page *)
(* latch, programmed when the loads stop; 0x80 and a second unlock with    *)
(* 0x10 erase the chip).                                                   *)

NoCells == [a \in {} |-> 0]

\* content of cell a
FlashCell(f, a) ==
    IF a \in DOMAIN f.mem THEN f.mem[a]
    ELSE IF f.bg = "ramp" THEN a % 256 ELSE 255

\* one write cycle (CE and WE pulsed low) of data d at address a
FlashWrite(f, a, d) ==
    CASE f.state = "idle" ->
           [f EXCEPT !.state = IF a = 21845 /\ d = 170 THEN "u1" ELSE "idle"]
      [] f.state = "u1" ->
           [f EXCEPT !.state = IF a = 10922 /\ d = 85 THEN "u2" ELSE "idle"]
      [] f.state = "u2" ->
           [f EXCEPT !.state = IF a = 21845 /\ d = 160 THEN "load"
                               ELSE IF a = 21845 /\ d = 128 THEN "e3"
                               ELSE "idle"]
      [] f.state = "load" ->
           IF f.latch = -1
           THEN [f EXCEPT !.latch = a \div PAGE_SIZE, !.load = (a :> d)]
           ELSE IF a \div PAGE_SIZE = f.latch
                THEN [f EXCEPT !.load = (a :> d) @@ f.load]
                ELSE f
      [] f.state = "e3" ->
           [f EXCEPT !.state = IF a = 21845 /\ d = 170 THEN "e4" ELSE "idle"]
      [] f.state = "e4" ->
           [f EXCEPT !.state = IF a = 10922 /\ d = 85 THEN "e5" ELSE "idle"]
      [] f.state = "e5" ->
           IF a = 21845 /\ d = 16
           THEN [f EXCEPT !.state = "idle", !.mem = NoCells, !.bg = "blank"]
           ELSE [f EXCEPT !.state = "idle"]

\* the loads have stopped for longer than the load window: the latched page
\* is programmed, bytes of it that were not loaded become 0xFF
FlashProgram(f) ==
    IF f.state = "load" /\ f.latch # -1
    THEN LET pg == {f.latch * PAGE_SIZE + k : k \in 0..(PAGE_SIZE - 1)}
         IN  [f EXCEPT !.state = "idle", !.latch = -1, !.load = NoCells,
                       !.mem = [a \in (DOMAIN f.mem) \cup pg |->
                                  IF a \in pg
                                  THEN (IF a \in DOMAIN f.load
                                        THEN f.load[a] ELSE 255)
                                  ELSE f.mem[a]]]
    ELSE [f EXCEPT !.state = "idle", !.latch = -1, !.load = NoCells]

\* The chip is selected by the controller only when the controller drives
\* CE low; with CE left as an input the external master (idle here) holds
\* it high.
FlashWriting == DrivenLow(FLASH_CE) /\ DrivenLow(FLASH_WE)
                /\ DDRA = 255 /\ DDRB = 255 /\ DDRC = 255
FlashReading == DrivenLow(FLASH_CE) /\ DrivenLow(FLASH_OE)
                /\ ~DrivenLow(FLASH_WE) /\ DDRA = 255 /\ DDRB = 255

\* the values PINC can return: the port's own output when port C drives
\* the bus, the addressed cell when the flash drives it, else a floating bus
PINC == IF DDRC = 255 THEN {PORTC}
        ELSE IF FlashReading THEN {FlashCell(flash, AddrBus)}
        ELSE {0, 255}

-----------------------------------------------------------------------------
(* The serial streams the model is run on *)

\* payloads of the w command
PayDEADBEEF == <<"D", "E", "A", "D", "B", "E", "E", "F", "*">>
PayLowBreak == <<"A", "*">>
PayFull     == Rep(<<"D", "E">>, PAGE_SIZE)

Payloads == {PayDEADBEEF, PayLowBreak, PayFull,
             <<"*">>,
             <<"a", "f", "*">>,
             <<"G", "x", "9", "/", "*">>,
             PayFull \o <<"*">>,
             Rep(<<"3", "B">>, PAGE_SIZE - 1) \o <<"9", "*">>,
             Rep(<<"f", "0">>, PAGE_SIZE - 1) \o <<"*">>}

PageChars == {"3", "0", "/"}

\* the commands the main specification draws from
Cmds == {<<"e">>, <<"?">>, <<"x">>, <<"d", "3">>,
         <<"w", "3">> \o PayDEADBEEF,
         <<"w", "3">> \o PayLowBreak,
         <<"w", "3">> \o PayFull}

RECURSIVE CmdSeqs(_)
CmdSeqs(n) == IF n = 0 THEN {<<>>}
              ELSE {s \o c : s \in CmdSeqs(n - 1), c \in Cmds} \cup CmdSeqs(n - 1)

\* an erase between two captures: the second capture starts from the state
\* an erase leaves behind after a release
LongSeqs == {<<"w", "3">> \o PayLowBreak \o <<"e", "d", "3">>,
             <<"d", "3", "e", "w", "3">> \o PayDEADBEEF,
             <<"d", "3", "?", "x", "e", "e", "d", "3">>}

Streams == {Bytes(s) : s \in CmdSeqs(MaxCmds) \ {<<>>}}
           \cup {Bytes(s) : s \in LongSeqs}

\* the streams of the fair specification: fewer commands to choose from
CmdsFair == {<<"e">>, <<"d", "3">>,
             <<"w", "3">> \o PayDEADBEEF,
             <<"w", "3">> \o PayFull}

RECURSIVE CmdSeqsFair(_)
CmdSeqsFair(n) ==
    IF n = 0 THEN {<<>>}
    ELSE {s \o c : s \in CmdSeqsFair(n - 1), c \in CmdsFair}
         \cup CmdSeqsFair(n - 1)

StreamsFair == {Bytes(s) : s \in CmdSeqsFair(MaxCmds) \ {<<>>}}
               \cup {Bytes(<<"?", "x", "w", "3">> \o PayLowBreak)}

\* write a page, dump it, for every payload and page selector
StreamsHex == {Bytes(<<"w", p>> \o pay \o <<"d", p>>) :
                   p \in PageChars, pay \in Payloads}
              \cup {Bytes(<<"e", "?", "x">>)}

-----------------------------------------------------------------------------
(* Initial state: the ATmega after reset, all port registers 0, setup()    *)
(* about to run                                                            *)

RegsAtReset == [DDRA |-> 0, DDRB |-> 0, DDRC |-> 0, DDRD |-> 0,
                PORTA |-> 0, PORTB |-> 0, PORTC |-> 0, PORTD |-> 0]

FlashAtReset == [state |-> "idle", latch |-> -1, load |-> NoCells,
                 mem |-> NoCells, bg |-> "ramp"]

InitOn(streams) ==
    /\ reg = RegsAtReset
    /\ pc = "setup_L284"
    /\ stack = <<>>
    /\ rx \in streams
    /\ tx = <<>>
    /\ cmd = 0
    /\ page = 0
    /\ buffer = [k \in 0..(PAGE_SIZE - 1) |-> 0]
    /\ i = 0
    /\ h = 0
    /\ l = 0
    /\ wp = [address |-> 0, src |-> [k \in 0..(PAGE_SIZE - 1) |-> 0], i |-> 0]
    /\ wb = [address |-> 0, data |-> 0]
    /\ rb = [address |-> 0, data |-> 0]
    /\ dp = [i |-> 0, rowLength |-> 0, data |-> 0]
    /\ flash = FlashAtReset
    /\ ownLog = <<>>
    /\ bus = <<>>
    /\ cyc = <<>>
    /\ cmdLog = <<>>
    /\ payload = <<>>

Init == InitOn(Streams)

InitHex == InitOn(StreamsHex)

InitFair == InitOn(StreamsFair)

-----------------------------------------------------------------------------
(* Control flow *)

Goto(next) == pc' = next /\ UNCHANGED stack
Call(f, ret) == pc' = f /\ stack' = <<ret>> \o stack
Return == pc' = Head(stack) /\ stack' = Tail(stack)

\* a statement that writes one register and does nothing else
Write(at, r, v, next) ==
    /\ pc = at
    /\ reg' = [reg EXCEPT ![r] = v]
    /\ Goto(next)
    /\ UNCHANGED <<rx, tx, locals, flash, hist>>

\* a register write that is part of a readByte / writeByte cycle
CycWrite(at, r, v, next) ==
    /\ pc = at
    /\ reg' = [reg EXCEPT ![r] = v]
    /\ cyc' = Append(cyc, <<r, v>>)
    /\ Goto(next)
    /\ UNCHANGED <<rx, tx, locals, flash, ownLog, bus, cmdLog, payload>>

-----------------------------------------------------------------------------
(* void setup() *)

\* DDRA = 0;
setup_L284 == Write("setup_L284", "DDRA", 0, "setup_L285")
\* DDRB = 0;
setup_L285 == Write("setup_L285", "DDRB", 0, "setup_L286")
\* DDRC = 0;
setup_L286 == Write("setup_L286", "DDRC", 0, "setup_L289")
\* DDRD = FLASH_CE|FLASH_OE|FLASH_WE|BUFFER_OE;
setup_L289 == Write("setup_L289", "DDRD",
                    FLASH_CE + FLASH_OE + FLASH_WE + BUFFER_OE, "setup_L292")
\* setup_L292 with FLASH_WE left out of the mask
setup_L292_noWE ==
    Write("setup_L292", "PORTD",
          BitOr(PORTD, FLASH_CE + FLASH_OE + BUFFER_OE), "setup_L296")
\* PORTD |= FLASH_CE|FLASH_OE|FLASH_WE|BUFFER_OE;
setup_L292 == Write("setup_L292", "PORTD",
                    BitOr(PORTD, FLASH_CE + FLASH_OE + FLASH_WE + BUFFER_OE),
                    "setup_L296")
\* Serial.begin(9600);  setup returns and loop() is entered
setup_L296 ==
    /\ pc = "setup_L296"
    /\ Goto("loop_L301")
    /\ UNCHANGED <<reg, rx, tx, locals, flash, hist>>

-----------------------------------------------------------------------------
(* void captureOwnership() *)

\* PORTD |= BUFFER_OE;
captureOwnership_L157 ==
    /\ pc = "captureOwnership_L157"
    /\ reg' = [reg EXCEPT !.PORTD = BitOr(PORTD, BUFFER_OE)]
    /\ ownLog' = Append(ownLog, <<"capture", ncmd>>)
    /\ Goto("captureOwnership_L160")
    /\ UNCHANGED <<rx, tx, locals, flash, bus, cyc, cmdLog, payload>>
\* DDRD |= FLASH_CE;
captureOwnership_L160 ==
    Write("captureOwnership_L160", "DDRD", BitOr(DDRD, FLASH_CE),
          "captureOwnership_L163")
\* captureOwnership_L163 with FLASH_OE left out of the mask
captureOwnership_L163_noOE ==
    Write("captureOwnership_L163", "PORTD",
          BitOr(PORTD, FLASH_CE + FLASH_WE), "captureOwnership_L166")
\* PORTD |= FLASH_CE|FLASH_WE|FLASH_OE;
captureOwnership_L163 ==
    Write("captureOwnership_L163", "PORTD",
          BitOr(PORTD, FLASH_CE + FLASH_WE + FLASH_OE), "captureOwnership_L166")
\* DDRA = 0;
captureOwnership_L166 ==
    Write("captureOwnership_L166", "DDRA", 0, "captureOwnership_L167")
\* DDRB = 0;
captureOwnership_L167 ==
    Write("captureOwnership_L167", "DDRB", 0, "captureOwnership_L168")
\* DDRC = 0;
captureOwnership_L168 ==
    Write("captureOwnership_L168", "DDRC", 0, "captureOwnership_L169")
\* PORTA = 0;
captureOwnership_L169 ==
    Write("captureOwnership_L169", "PORTA", 0, "captureOwnership_L170")
\* PORTB = 0;
captureOwnership_L170 ==
    Write("captureOwnership_L170", "PORTB", 0, "captureOwnership_L171")
\* PORTC = 0;  and return
captureOwnership_L171 ==
    /\ pc = "captureOwnership_L171"
    /\ reg' = [reg EXCEPT !.PORTC = 0]
    /\ Return
    /\ UNCHANGED <<rx, tx, locals, flash, hist>>

-----------------------------------------------------------------------------
(* void releaseOwnership() *)

\* PORTD |= FLASH_WE;
releaseOwnership_L178 ==
    /\ pc = "releaseOwnership_L178"
    /\ reg' = [reg EXCEPT !.PORTD = BitOr(PORTD, FLASH_WE)]
    /\ ownLog' = Append(ownLog, <<"release", ncmd>>)
    /\ Goto("releaseOwnership_L181")
    /\ UNCHANGED <<rx, tx, locals, flash, bus, cyc, cmdLog, payload>>
\* PORTD &= ~FLASH_OE;
releaseOwnership_L181 ==
    Write("releaseOwnership_L181", "PORTD", BitAndNot(PORTD, FLASH_OE),
          "releaseOwnership_L184")
\* DDRD &= ~FLASH_CE;
releaseOwnership_L184 ==
    Write("releaseOwnership_L184", "DDRD", BitAndNot(DDRD, FLASH_CE),
          "releaseOwnership_L185")
\* releaseOwnership_L185 leaving the pull-up of CE as it is
releaseOwnership_L185_keep ==
    Write("releaseOwnership_L185", "PORTD", PORTD, "releaseOwnership_L188")
\* PORTD &= ~FLASH_CE;
releaseOwnership_L185 ==
    Write("releaseOwnership_L185", "PORTD", BitAndNot(PORTD, FLASH_CE),
          "releaseOwnership_L188")
\* DDRA = 0;
releaseOwnership_L188 ==
    Write("releaseOwnership_L188", "DDRA", 0, "releaseOwnership_L189")
\* DDRB = 0;
releaseOwnership_L189 ==
    Write("releaseOwnership_L189", "DDRB", 0, "releaseOwnership_L190")
\* DDRC = 0;
releaseOwnership_L190 ==
    Write("releaseOwnership_L190", "DDRC", 0, "releaseOwnership_L191")
\* PORTA = 0;
releaseOwnership_L191 ==
    Write("releaseOwnership_L191", "PORTA", 0, "releaseOwnership_L192")
\* PORTB = 0;
releaseOwnership_L192 ==
    Write("releaseOwnership_L192", "PORTB", 0, "releaseOwnership_L193")
\* PORTC = 0;
releaseOwnership_L193 ==
    Write("releaseOwnership_L193", "PORTC", 0, "releaseOwnership_L196")
\* PORTD &= ~BUFFER_OE;  and return
releaseOwnership_L196 ==
    /\ pc = "releaseOwnership_L196"
    /\ reg' = [reg EXCEPT !.PORTD = BitAndNot(PORTD, BUFFER_OE)]
    /\ Return
    /\ UNCHANGED <<rx, tx, locals, flash, hist>>

-----------------------------------------------------------------------------
(* void writeByte(uint16_t address, byte data) *)

\* PORTD |= FLASH_CE|FLASH_OE|FLASH_WE;   first statement: a new cycle starts
writeByte_L50 ==
    LET v == BitOr(PORTD, FLASH_CE + FLASH_OE + FLASH_WE) IN
    /\ pc = "writeByte_L50"
    /\ reg' = [reg EXCEPT !.PORTD = v]
    /\ cyc' = << <<"PORTD", v>> >>
    /\ Goto("writeByte_L53")
    /\ UNCHANGED <<rx, tx, locals, flash, ownLog, bus, cmdLog, payload>>
\* PORTA = address;
writeByte_L53 ==
    CycWrite("writeByte_L53", "PORTA", ToByte(wb.address), "writeByte_L54")
\* PORTB = address>>8;
writeByte_L54 ==
    CycWrite("writeByte_L54", "PORTB", ToByte(wb.address \div 256),
             "writeByte_L55")
\* PORTC = data;
writeByte_L55 ==
    CycWrite("writeByte_L55", "PORTC", wb.data, "writeByte_L58")
\* writeByte_L58 lowering WE only
writeByte_L58_WEonly ==
    LET v == BitAndNot(PORTD, FLASH_WE) IN
    /\ pc = "writeByte_L58"
    /\ reg' = [reg EXCEPT !.PORTD = v]
    /\ cyc' = Append(cyc, <<"PORTD", v>>)
    /\ bus' = Append(bus, <<"W", AddrBus, PORTC>>)
    /\ Goto("writeByte_L61")
    /\ UNCHANGED <<rx, tx, locals, flash, ownLog, cmdLog, payload>>
\* PORTD &= ~(FLASH_WE|FLASH_CE);   the write pulse starts
writeByte_L58 ==
    LET v == BitAndNot(PORTD, FLASH_WE + FLASH_CE) IN
    /\ pc = "writeByte_L58"
    /\ reg' = [reg EXCEPT !.PORTD = v]
    /\ cyc' = Append(cyc, <<"PORTD", v>>)
    /\ bus' = Append(bus, <<"W", AddrBus, PORTC>>)
    /\ Goto("writeByte_L61")
    /\ UNCHANGED <<rx, tx, locals, flash, ownLog, cmdLog, payload>>
\* delayMicroseconds(1);
writeByte_L61 ==
    /\ pc = "writeByte_L61"
    /\ cyc' = Append(cyc, <<"delay_us", 1>>)
    /\ Goto("writeByte_L63")
    /\ UNCHANGED <<reg, rx, tx, locals, flash, ownLog, bus, cmdLog, payload>>
\* PORTD |= FLASH_CE|FLASH_OE|FLASH_WE;   the write pulse ends: a selected
\* chip takes the byte
writeByte_L63 ==
    LET v == BitOr(PORTD, FLASH_CE + FLASH_OE + FLASH_WE) IN
    /\ pc = "writeByte_L63"
    /\ reg' = [reg EXCEPT !.PORTD = v]
    /\ cyc' = Append(cyc, <<"PORTD", v>>)
    /\ flash' = IF FlashWriting THEN FlashWrite(flash, AddrBus, PORTC)
                ELSE flash
    /\ Goto("writeByte_L65")
    /\ UNCHANGED <<rx, tx, locals, ownLog, bus, cmdLog, payload>>
\* delayMicroseconds(1);  and return
writeByte_L65 ==
    /\ pc = "writeByte_L65"
    /\ cyc' = Append(cyc, <<"delay_us", 1>>)
    /\ Return
    /\ UNCHANGED <<reg, rx, tx, locals, flash, ownLog, bus, cmdLog, payload>>

-----------------------------------------------------------------------------
(* byte readByte(uint16_t address) *)

\* DDRA = 0xff;   first statement: a new cycle starts
readByte_L71 ==
    /\ pc = "readByte_L71"
    /\ reg' = [reg EXCEPT !.DDRA = 255]
    /\ cyc' = << <<"DDRA", 255>> >>
    /\ Goto("readByte_L72")
    /\ UNCHANGED <<rx, tx, locals, flash, ownLog, bus, cmdLog, payload>>
\* DDRB = 0xff;
readByte_L72 == CycWrite("readByte_L72", "DDRB", 255, "readByte_L74")
\* PORTD |= FLASH_CE|FLASH_OE|FLASH_WE;
readByte_L74 ==
    CycWrite("readByte_L74", "PORTD",
             BitOr(PORTD, FLASH_CE + FLASH_OE + FLASH_WE), "readByte_L77")
\* PORTA = address;
readByte_L77 ==
    CycWrite("readByte_L77", "PORTA", ToByte(rb.address), "readByte_L78")
\* PORTB = address>>8;
readByte_L78 ==
    CycWrite("readByte_L78", "PORTB", ToByte(rb.address \div 256),
             "readByte_L79")
\* delayMicroseconds(10);
readByte_L79 ==
    /\ pc = "readByte_L79"
    /\ cyc' = Append(cyc, <<"delay_us", 10>>)
    /\ Goto("readByte_L81")
    /\ UNCHANGED <<reg, rx, tx, locals, flash, ownLog, bus, cmdLog, payload>>
\* readByte_L81 lowering OE only
readByte_L81_OEonly ==
    CycWrite("readByte_L81", "PORTD", BitAndNot(PORTD, FLASH_OE),
             "readByte_L83")
\* PORTD &= ~(FLASH_CE|FLASH_OE);
readByte_L81 ==
    CycWrite("readByte_L81", "PORTD",
             BitAndNot(PORTD, FLASH_CE + FLASH_OE), "readByte_L83")
\* delayMicroseconds(10);
readByte_L83 ==
    /\ pc = "readByte_L83"
    /\ cyc' = Append(cyc, <<"delay_us", 10>>)
    /\ Goto("readByte_L86")
    /\ UNCHANGED <<reg, rx, tx, locals, flash, ownLog, bus, cmdLog, payload>>
\* byte data = PINC;
readByte_L86 ==
    /\ pc = "readByte_L86"
    /\ \E v \in PINC :
         /\ rb' = [rb EXCEPT !.data = v]
         /\ cyc' = Append(cyc, <<"PINC", v>>)
         /\ bus' = Append(bus, <<"R", AddrBus, v>>)
    /\ Goto("readByte_L88")
    /\ UNCHANGED <<reg, rx, tx, cmd, page, buffer, i, h, l, wp, wb, dp,
                   flash, ownLog, cmdLog, payload>>
\* PORTD |= FLASH_CE|FLASH_OE;
readByte_L88 ==
    CycWrite("readByte_L88", "PORTD", BitOr(PORTD, FLASH_CE + FLASH_OE),
             "readByte_L91")
\* DDRA = 0;
readByte_L91 == CycWrite("readByte_L91", "DDRA", 0, "readByte_L92")
\* DDRB = 0;
readByte_L92 == CycWrite("readByte_L92", "DDRB", 0, "readByte_L93")
\* PORTA = 0;
readByte_L93 == CycWrite("readByte_L93", "PORTA", 0, "readByte_L94")
\* PORTB = 0;  return data;
readByte_L94 ==
    /\ pc = "readByte_L94"
    /\ reg' = [reg EXCEPT !.PORTB = 0]
    /\ cyc' = Append(cyc, <<"PORTB", 0>>)
    /\ Return
    /\ UNCHANGED <<rx, tx, locals, flash, ownLog, bus, cmdLog, payload>>

-----------------------------------------------------------------------------
(* void writePage(uint16_t address, const byte* src) *)

\* writeByte(a, d) called, to return at ret
CallWriteByte(at, a, d, ret) ==
    /\ pc = at
    /\ wb' = [address |-> a, data |-> d]
    /\ Call("writeByte_L50", ret)
    /\ UNCHANGED <<reg, rx, tx, cmd, page, buffer, i, h, l, wp, rb, dp,
                   flash, hist>>

\* delay(ms): long enough for the chip to end a page load and program
DelayMs(at, ms, next) ==
    /\ pc = at
    /\ bus' = Append(bus, <<"delay_ms", ms>>)
    /\ flash' = FlashProgram(flash)
    /\ Goto(next)
    /\ UNCHANGED <<reg, rx, tx, locals, ownLog, cyc, cmdLog, payload>>

\* DDRA = 0xff;
writePage_L102 == Write("writePage_L102", "DDRA", 255, "writePage_L103")
\* DDRB = 0xff;
writePage_L103 == Write("writePage_L103", "DDRB", 255, "writePage_L104")
\* DDRC = 0xff;
writePage_L104 == Write("writePage_L104", "DDRC", 255, "writePage_L107")
\* writeByte(0x5555, 0xAA);
writePage_L107 == CallWriteByte("writePage_L107", 21845, 170, "writePage_L108")
\* writeByte(0x2AAA, 0x55);
writePage_L108 == CallWriteByte("writePage_L108", 10922, 85, "writePage_L109")
\* writeByte(0x5555, 0xA0);
writePage_L109 == CallWriteByte("writePage_L109", 21845, 160, "writePage_L112")
\* for(byte i = 0; ...
writePage_L112 ==
    /\ pc = "writePage_L112"
    /\ wp' = [wp EXCEPT !.i = 0]
    /\ Goto("writePage_L112_test")
    /\ UNCHANGED <<reg, rx, tx, cmd, page, buffer, i, h, l, wb, rb, dp,
                   flash, hist>>
\* ... i < PAGE_SIZE; ...
writePage_L112_test ==
    /\ pc = "writePage_L112_test"
    /\ Goto(IF wp.i < PAGE_SIZE THEN "writePage_L113" ELSE "writePage_L116")
    /\ UNCHANGED <<reg, rx, tx, locals, flash, hist>>
\* writePage_L113 without the index in the address
writePage_L113_noIndex ==
    CallWriteByte("writePage_L113", wp.address, wp.src[wp.i],
                  "writePage_L112_incr")
\* writeByte(address + i, src[i]);
writePage_L113 ==
    CallWriteByte("writePage_L113", (wp.address + wp.i) % 65536, wp.src[wp.i],
                  "writePage_L112_incr")
\* writePage_L112_incr printing a progress mark for every byte
writePage_L112_incr_print ==
    /\ pc = "writePage_L112_incr"
    /\ wp' = [wp EXCEPT !.i = ToByte(wp.i + 1)]
    /\ tx' = Append(tx, ".")
    /\ Goto("writePage_L112_test")
    /\ UNCHANGED <<reg, rx, cmd, page, buffer, i, h, l, wb, rb, dp,
                   flash, hist>>
\* ... i++)   i is a byte
writePage_L112_incr ==
    /\ pc = "writePage_L112_incr"
    /\ wp' = [wp EXCEPT !.i = ToByte(wp.i + 1)]
    /\ Goto("writePage_L112_test")
    /\ UNCHANGED <<reg, rx, tx, cmd, page, buffer, i, h, l, wb, rb, dp,
                   flash, hist>>
\* delay(10);
writePage_L116 == DelayMs("writePage_L116", 10, "writePage_L119")
\* DDRA = 0;
writePage_L119 == Write("writePage_L119", "DDRA", 0, "writePage_L120")
\* DDRB = 0;
writePage_L120 == Write("writePage_L120", "DDRB", 0, "writePage_L121")
\* DDRC = 0;
writePage_L121 == Write("writePage_L121", "DDRC", 0, "writePage_L122")
\* PORTA = 0;
writePage_L122 == Write("writePage_L122", "PORTA", 0, "writePage_L123")
\* PORTB = 0;
writePage_L123 == Write("writePage_L123", "PORTB", 0, "writePage_L124")
\* PORTC = 0;  and return
writePage_L124 ==
    /\ pc = "writePage_L124"
    /\ reg' = [reg EXCEPT !.PORTC = 0]
    /\ Return
    /\ UNCHANGED <<rx, tx, locals, flash, hist>>

-----------------------------------------------------------------------------
(* void chipErase() *)

\* Serial.println("Erasing chip...");
chipErase_L129 ==
    /\ pc = "chipErase_L129"
    /\ tx' = Append(tx, "Erasing chip...\r\n")
    /\ Goto("chipErase_L132")
    /\ UNCHANGED <<reg, rx, locals, flash, hist>>
\* DDRA = 0xff;
chipErase_L132 == Write("chipErase_L132", "DDRA", 255, "chipErase_L133")
\* DDRB = 0xff;
chipErase_L133 == Write("chipErase_L133", "DDRB", 255, "chipErase_L134")
\* DDRC = 0xff;
chipErase_L134 == Write("chipErase_L134", "DDRC", 255, "chipErase_L136")
\* writeByte(0x5555, 0xAA);
chipErase_L136 == CallWriteByte("chipErase_L136", 21845, 170, "chipErase_L137")
\* writeByte(0x2AAA, 0x55);
chipErase_L137 == CallWriteByte("chipErase_L137", 10922, 85, "chipErase_L138")
\* writeByte(0x5555, 0x80);
chipErase_L138 == CallWriteByte("chipErase_L138", 21845, 128, "chipErase_L139")
\* writeByte(0x5555, 0xAA);
chipErase_L139 == CallWriteByte("chipErase_L139", 21845, 170, "chipErase_L140")
\* writeByte(0x2AAA, 0x55);
chipErase_L140 == CallWriteByte("chipErase_L140", 10922, 85, "chipErase_L141")
\* chipErase_L141 with the page-load command byte instead of erase-confirm
chipErase_L141_A0 ==
    CallWriteByte("chipErase_L141", 21845, 160, "chipErase_L142")
\* writeByte(0x5555, 0x10);
chipErase_L141 == CallWriteByte("chipErase_L141", 21845, 16, "chipErase_L142")
\* delay(50);
chipErase_L142 == DelayMs("chipErase_L142", 50, "chipErase_L145")
\* DDRA = 0;
chipErase_L145 == Write("chipErase_L145", "DDRA", 0, "chipErase_L146")
\* DDRB = 0;
chipErase_L146 == Write("chipErase_L146", "DDRB", 0, "chipErase_L147")
\* DDRC = 0;
chipErase_L147 == Write("chipErase_L147", "DDRC", 0, "chipErase_L148")
\* PORTA = 0;
chipErase_L148 == Write("chipErase_L148", "PORTA", 0, "chipErase_L149")
\* PORTB = 0;
chipErase_L149 == Write("chipErase_L149", "PORTB", 0, "chipErase_L150")
\* PORTC = 0;  and return
chipErase_L150 ==
    /\ pc = "chipErase_L150"
    /\ reg' = [reg EXCEPT !.PORTC = 0]
    /\ Return
    /\ UNCHANGED <<rx, tx, locals, flash, hist>>

-----------------------------------------------------------------------------
(* void writePageHex(byte page) *)

\* captureOwnership();
writePageHex_L218 ==
    /\ pc = "writePageHex_L218"
    /\ Call("captureOwnership_L157", "writePageHex_L222")
    /\ UNCHANGED <<reg, rx, tx, locals, flash, hist>>
\* for(int i = 0; i < PAGE_SIZE; i++) buffer[i] = 0;
writePageHex_L222 ==
    /\ pc = "writePageHex_L222"
    /\ buffer' = [k \in 0..(PAGE_SIZE - 1) |-> 0]
    /\ Goto("writePageHex_L226")
    /\ UNCHANGED <<reg, rx, tx, cmd, page, i, h, l, wp, wb, rb, dp,
                   flash, hist>>
\* byte i = 0;
writePageHex_L226 ==
    /\ pc = "writePageHex_L226"
    /\ i' = 0
    /\ Goto("writePageHex_L227")
    /\ UNCHANGED <<reg, rx, tx, cmd, page, buffer, h, l, wp, wb, rb, dp,
                   flash, hist>>
\* while(i < PAGE_SIZE)
writePageHex_L227 ==
    /\ pc = "writePageHex_L227"
    /\ Goto(IF i < PAGE_SIZE THEN "writePageHex_L229" ELSE "writePageHex_L242")
    /\ UNCHANGED <<reg, rx, tx, locals, flash, hist>>
\* byte h = readSerial(); if(h == '*') break; h = ascToNibble(h);
writePageHex_L229 ==
    /\ pc = "writePageHex_L229"
    /\ rx # <<>>
    /\ rx' = Tail(rx)
    /\ payload' = Append(payload, Head(rx))
    /\ IF Head(rx) = Ord("*")
       THEN h' = Head(rx) /\ Goto("writePageHex_L242")
       ELSE h' = ascToNibble(Head(rx)) /\ Goto("writePageHex_L234")
    /\ UNCHANGED <<reg, tx, cmd, page, buffer, i, l, wp, wb, rb, dp,
                   flash, ownLog, bus, cyc, cmdLog>>
\* writePageHex_L234 with the sentinel returning from the function at once
writePageHex_L234_return ==
    /\ pc = "writePageHex_L234"
    /\ rx # <<>>
    /\ rx' = Tail(rx)
    /\ payload' = Append(payload, Head(rx))
    /\ IF Head(rx) = Ord("*")
       THEN l' = Head(rx) /\ Goto("writePageHex_L247")
       ELSE l' = ascToNibble(Head(rx)) /\ Goto("writePageHex_L239")
    /\ UNCHANGED <<reg, tx, cmd, page, buffer, i, h, wp, wb, rb, dp,
                   flash, ownLog, bus, cyc, cmdLog>>
\* byte l = readSerial(); if(l == '*') break; l = ascToNibble(l);
writePageHex_L234 ==
    /\ pc = "writePageHex_L234"
    /\ rx # <<>>
    /\ rx' = Tail(rx)
    /\ payload' = Append(payload, Head(rx))
    /\ IF Head(rx) = Ord("*")
       THEN l' = Head(rx) /\ Goto("writePageHex_L242")
       ELSE l' = ascToNibble(Head(rx)) /\ Goto("writePageHex_L239")
    /\ UNCHANGED <<reg, tx, cmd, page, buffer, i, h, wp, wb, rb, dp,
                   flash, ownLog, bus, cyc, cmdLog>>
\* writePageHex_L239 without the increment of i
writePageHex_L239_noIncr ==
    /\ pc = "writePageHex_L239"
    /\ buffer' = [buffer EXCEPT ![i] = PackNibbles(h, l)]
    /\ i' = i
    /\ Goto("writePageHex_L227")
    /\ UNCHANGED <<reg, rx, tx, cmd, page, h, l, wp, wb, rb, dp, flash, hist>>
\* buffer[i++] = (h<<4)|l;
writePageHex_L239 ==
    /\ pc = "writePageHex_L239"
    /\ buffer' = [buffer EXCEPT ![i] = PackNibbles(h, l)]
    /\ i' = ToByte(i + 1)
    /\ Goto("writePageHex_L227")
    /\ UNCHANGED <<reg, rx, tx, cmd, page, h, l, wp, wb, rb, dp, flash, hist>>
\* Serial.print("Writing page "); Serial.println(page);
writePageHex_L242 ==
    /\ pc = "writePageHex_L242"
    /\ tx' = tx \o <<"Writing page ", DecStr(page) \o "\r\n">>
    /\ Goto("writePageHex_L244")
    /\ UNCHANGED <<reg, rx, locals, flash, hist>>
\* writePage(page * PAGE_SIZE, buffer);
writePageHex_L244 ==
    /\ pc = "writePageHex_L244"
    /\ wp' = [address |-> PageBase(page), src |-> buffer, i |-> wp.i]
    /\ Call("writePage_L102", "writePageHex_L246")
    /\ UNCHANGED <<reg, rx, tx, cmd, page, buffer, i, h, l, wb, rb, dp,
                   flash, hist>>
\* releaseOwnership();
writePageHex_L246 ==
    /\ pc = "writePageHex_L246"
    /\ Call("releaseOwnership_L178", "writePageHex_L247")
    /\ UNCHANGED <<reg, rx, tx, locals, flash, hist>>
\* }
writePageHex_L247 ==
    /\ pc = "writePageHex_L247"
    /\ Return
    /\ UNCHANGED <<reg, rx, tx, locals, flash, hist>>

-----------------------------------------------------------------------------
(* void dumpPage(byte page) *)

\* captureOwnership();
dumpPage_L251 ==
    /\ pc = "dumpPage_L251"
    /\ Call("captureOwnership_L157", "dumpPage_L253")
    /\ UNCHANGED <<reg, rx, tx, locals, flash, hist>>
\* Serial.print("Reading page "); Serial.println(page);
dumpPage_L253 ==
    /\ pc = "dumpPage_L253"
    /\ tx' = tx \o <<"Reading page ", DecStr(page) \o "\r\n">>
    /\ Goto("dumpPage_L258")
    /\ UNCHANGED <<reg, rx, locals, flash, hist>>
\* int rowLength = 0; for(int i = 0; ...
dumpPage_L258 ==
    /\ pc = "dumpPage_L258"
    /\ dp' = [dp EXCEPT !.rowLength = 0, !.i = 0]
    /\ Goto("dumpPage_L259")
    /\ UNCHANGED <<reg, rx, tx, cmd, page, buffer, i, h, l, wp, wb, rb,
                   flash, hist>>
\* ... i < PAGE_SIZE; ...
dumpPage_L259 ==
    /\ pc = "dumpPage_L259"
    /\ Goto(IF dp.i < PAGE_SIZE THEN "dumpPage_L261" ELSE "dumpPage_L276")
    /\ UNCHANGED <<reg, rx, tx, locals, flash, hist>>
\* ... readByte(page * PAGE_SIZE + i)
dumpPage_L261 ==
    /\ pc = "dumpPage_L261"
    /\ rb' = [rb EXCEPT !.address = (page * PAGE_SIZE + dp.i) % 65536]
    /\ Call("readByte_L71", "dumpPage_L265")
    /\ UNCHANGED <<reg, rx, tx, cmd, page, buffer, i, h, l, wp, wb, dp,
                   flash, hist>>
\* byte data = <returned byte>; str = hex pair and space; Serial.print(str);
dumpPage_L265 ==
    /\ pc = "dumpPage_L265"
    /\ dp' = [dp EXCEPT !.data = rb.data]
    /\ tx' = Append(tx, HexStr(rb.data))
    /\ Goto("dumpPage_L271")
    /\ UNCHANGED <<reg, rx, cmd, page, buffer, i, h, l, wp, wb, rb,
                   flash, hist>>
\* if(++rowLength == 16) { Serial.println(" "); rowLength = 0; }   i++
dumpPage_L271 ==
    /\ pc = "dumpPage_L271"
    /\ IF dp.rowLength + 1 = 16
       THEN /\ tx' = Append(tx, " \r\n")
            /\ dp' = [dp EXCEPT !.rowLength = 0, !.i = dp.i + 1]
       ELSE /\ tx' = tx
            /\ dp' = [dp EXCEPT !.rowLength = dp.rowLength + 1, !.i = dp.i + 1]
    /\ Goto("dumpPage_L259")
    /\ UNCHANGED <<reg, rx, cmd, page, buffer, i, h, l, wp, wb, rb,
                   flash, hist>>
\* Serial.println(" ");
dumpPage_L276 ==
    /\ pc = "dumpPage_L276"
    /\ tx' = Append(tx, " \r\n")
    /\ Goto("dumpPage_L278")
    /\ UNCHANGED <<reg, rx, locals, flash, hist>>
\* releaseOwnership();
dumpPage_L278 ==
    /\ pc = "dumpPage_L278"
    /\ Call("releaseOwnership_L178", "dumpPage_L279")
    /\ UNCHANGED <<reg, rx, tx, locals, flash, hist>>
\* }
dumpPage_L279 ==
    /\ pc = "dumpPage_L279"
    /\ Return
    /\ UNCHANGED <<reg, rx, tx, locals, flash, hist>>

-----------------------------------------------------------------------------
(* void loop() *)

\* byte cmd = readSerial();   a new command starts
loop_L301 ==
    /\ pc = "loop_L301"
    /\ rx # <<>>
    /\ cmd' = Head(rx)
    /\ rx' = Tail(rx)
    /\ tx' = <<>>
    /\ bus' = <<>>
    /\ cyc' = <<>>
    /\ cmdLog' = Append(cmdLog, [c |-> Head(rx), s |-> -1, p |-> -1])
    /\ Goto("loop_L304")
    /\ UNCHANGED <<reg, page, buffer, i, h, l, wp, wb, rb, dp, flash, ownLog,
                   payload>>
\* Serial.println("Ready\n");
loop_L304 ==
    /\ pc = "loop_L304"
    /\ tx' = Append(tx, "Ready\n\r\n")
    /\ Goto("loop_L306")
    /\ UNCHANGED <<reg, rx, locals, flash, hist>>
\* loop_L309 with page kept as an int: no conversion to byte
loop_L309_noWrap ==
    /\ pc = "loop_L306"
    /\ cmd = Ord("w")
    /\ rx # <<>>
    /\ page' = Head(rx) - Ord("0")
    /\ rx' = Tail(rx)
    /\ cmdLog' = [cmdLog EXCEPT ![Len(cmdLog)].s = Head(rx),
                                ![Len(cmdLog)].p = Head(rx) - Ord("0")]
    /\ payload' = <<>>
    /\ Goto("loop_L310")
    /\ UNCHANGED <<reg, tx, cmd, buffer, i, h, l, wp, wb, rb, dp, flash,
                   ownLog, bus, cyc>>
\* case 'w': page = readSerial() - '0';
loop_L309 ==
    /\ pc = "loop_L306"
    /\ cmd = Ord("w")
    /\ rx # <<>>
    /\ page' = ToByte(Head(rx) - Ord("0"))
    /\ rx' = Tail(rx)
    /\ cmdLog' = [cmdLog EXCEPT ![Len(cmdLog)].s = Head(rx),
                                ![Len(cmdLog)].p = ToByte(Head(rx) - Ord("0"))]
    /\ payload' = <<>>
    /\ Goto("loop_L310")
    /\ UNCHANGED <<reg, tx, cmd, buffer, i, h, l, wp, wb, rb, dp, flash,
                   ownLog, bus, cyc>>
\* writePageHex(page); break;
loop_L310 ==
    /\ pc = "loop_L310"
    /\ Call("writePageHex_L218", "loop_L332")
    /\ UNCHANGED <<reg, rx, tx, locals, flash, hist>>
\* case 'd': page = readSerial() - '0';
loop_L314 ==
    /\ pc = "loop_L306"
    /\ cmd = Ord("d")
    /\ rx # <<>>
    /\ page' = ToByte(Head(rx) - Ord("0"))
    /\ rx' = Tail(rx)
    /\ cmdLog' = [cmdLog EXCEPT ![Len(cmdLog)].s = Head(rx),
                                ![Len(cmdLog)].p = ToByte(Head(rx) - Ord("0"))]
    /\ Goto("loop_L315")
    /\ UNCHANGED <<reg, tx, cmd, buffer, i, h, l, wp, wb, rb, dp, flash,
                   ownLog, bus, cyc, payload>>
\* dumpPage(page); break;
loop_L315 ==
    /\ pc = "loop_L315"
    /\ Call("dumpPage_L251", "loop_L332")
    /\ UNCHANGED <<reg, rx, tx, locals, flash, hist>>
\* case 'e': chipErase(); break;
loop_L319 ==
    /\ pc = "loop_L306"
    /\ cmd = Ord("e")
    /\ Call("chipErase_L129", "loop_L332")
    /\ UNCHANGED <<reg, rx, tx, locals, flash, hist>>
\* case '?': three lines of help; break;
loop_L323 ==
    /\ pc = "loop_L306"
    /\ cmd = Ord("?")
    /\ tx' = tx \o <<"wX... write hex data to page X, terminated with *\r\n",
                     "dX    dump page X\r\n",
                     "e     erase chip\r\n">>
    /\ Goto("loop_L332")
    /\ UNCHANGED <<reg, rx, locals, flash, hist>>
\* default: Serial.println("Unknown command. Type ? for help"); break;
loop_L329 ==
    /\ pc = "loop_L306"
    /\ cmd \notin {Ord("w"), Ord("d"), Ord("e"), Ord("?")}
    /\ tx' = Append(tx, "Unknown command. Type ? for help\r\n")
    /\ Goto("loop_L332")
    /\ UNCHANGED <<reg, rx, locals, flash, hist>>
\* }   loop() returns and is called again
loop_L332 ==
    /\ pc = "loop_L332"
    /\ Goto("loop_L301")
    /\ UNCHANGED <<reg, rx, tx, locals, flash, hist>>

-----------------------------------------------------------------------------
Next ==
    \/ setup_L284 \/ setup_L285 \/ setup_L286 \/ setup_L289 \/ setup_L292
    \/ setup_L296
    \/ captureOwnership_L157 \/ captureOwnership_L160 \/ captureOwnership_L163
    \/ captureOwnership_L166 \/ captureOwnership_L167 \/ captureOwnership_L168
    \/ captureOwnership_L169 \/ captureOwnership_L170 \/ captureOwnership_L171
    \/ releaseOwnership_L178 \/ releaseOwnership_L181 \/ releaseOwnership_L184
    \/ releaseOwnership_L185 \/ releaseOwnership_L188 \/ releaseOwnership_L189
    \/ releaseOwnership_L190 \/ releaseOwnership_L191 \/ releaseOwnership_L192
    \/ releaseOwnership_L193 \/ releaseOwnership_L196
    \/ writeByte_L50 \/ writeByte_L53 \/ writeByte_L54 \/ writeByte_L55
    \/ writeByte_L58 \/ writeByte_L61 \/ writeByte_L63 \/ writeByte_L65
    \/ readByte_L71 \/ readByte_L72 \/ readByte_L74 \/ readByte_L77
    \/ readByte_L78 \/ readByte_L79 \/ readByte_L81 \/ readByte_L83
    \/ readByte_L86 \/ readByte_L88 \/ readByte_L91 \/ readByte_L92
    \/ readByte_L93 \/ readByte_L94
    \/ writePage_L102 \/ writePage_L103 \/ writePage_L104 \/ writePage_L107
    \/ writePage_L108 \/ writePage_L109 \/ writePage_L112
    \/ writePage_L112_test \/ writePage_L113 \/ writePage_L112_incr
    \/ writePage_L116 \/ writePage_L119 \/ writePage_L120 \/ writePage_L121
    \/ writePage_L122 \/ writePage_L123 \/ writePage_L124
    \/ chipErase_L129 \/ chipErase_L132 \/ chipErase_L133 \/ chipErase_L134
    \/ chipErase_L136 \/ chipErase_L137 \/ chipErase_L138 \/ chipErase_L139
    \/ chipErase_L140 \/ chipErase_L141 \/ chipErase_L142 \/ chipErase_L145
    \/ chipErase_L146 \/ chipErase_L147 \/ chipErase_L148 \/ chipErase_L149
    \/ chipErase_L150
    \/ writePageHex_L218 \/ writePageHex_L222 \/ writePageHex_L226
    \/ writePageHex_L227 \/ writePageHex_L229 \/ writePageHex_L234
    \/ writePageHex_L239 \/ writePageHex_L242 \/ writePageHex_L244
    \/ writePageHex_L246 \/ writePageHex_L247
    \/ dumpPage_L251 \/ dumpPage_L253 \/ dumpPage_L258 \/ dumpPage_L259
    \/ dumpPage_L261 \/ dumpPage_L265 \/ dumpPage_L271 \/ dumpPage_L276
    \/ dumpPage_L278 \/ dumpPage_L279
    \/ loop_L301 \/ loop_L304 \/ loop_L309 \/ loop_L310 \/ loop_L314
    \/ loop_L315 \/ loop_L319 \/ loop_L323 \/ loop_L329 \/ loop_L332

Spec == Init /\ [][Next]_vars

SpecHex == InitHex /\ [][Next]_vars

\* The firmware never stops by itself: the only statement that can wait is
\* readSerial, which waits for a byte of the stream.
SpecFair == InitFair /\ [][Next]_vars /\ WF_vars(Next)

-----------------------------------------------------------------------------
(* Vocabulary of the properties *)

WriteBytePcs == {"writeByte_L50", "writeByte_L53", "writeByte_L54",
                 "writeByte_L55", "writeByte_L58", "writeByte_L61",
                 "writeByte_L63", "writeByte_L65"}

ReadBytePcs == {"readByte_L71", "readByte_L72", "readByte_L74",
                "readByte_L77", "readByte_L78", "readByte_L79",
                "readByte_L81", "readByte_L83", "readByte_L86",
                "readByte_L88", "readByte_L91", "readByte_L92",
                "readByte_L93", "readByte_L94"}

\* the last ownership call was a capture
Captured == ownLog # <<>> /\ ownLog[Len(ownLog)][1] = "capture"

\* the command in progress, or just completed, is a page write, dump or erase
BusCommand == cmd \in {Ord("w"), Ord("d"), Ord("e")}

\* a command has run to its end and loop() is about to return
CommandDone == pc = "loop_L332"

\* loop() is about to read a command character
AwaitingCommand == pc = "loop_L301"

BusesInput == DDRA = 0 /\ DDRB = 0 /\ DDRC = 0
BusesZero  == PORTA = 0 /\ PORTB = 0 /\ PORTC = 0

\* "external master owns bus": buffer output enabled, CE an input without
\* pull-up, address and data ports inputs
ExternalOwns ==
    /\ DrivenLow(BUFFER_OE)
    /\ Clear(DDRD, FLASH_CE) /\ Clear(PORTD, FLASH_CE)
    /\ BusesInput

\* "controller owns bus": buffer output disabled, CE driven by the controller
ControllerOwns ==
    /\ DrivenHigh(BUFFER_OE)
    /\ Has(DDRD, FLASH_CE)

\* how the write command left its input loop
EndedFull      == i = PAGE_SIZE
EndedHighBreak == i < PAGE_SIZE /\ h = Ord("*")
EndedLowBreak  == i < PAGE_SIZE /\ h # Ord("*") /\ l = Ord("*")

-----------------------------------------------------------------------------
(* C1 *)

\* C1: every writeByte and every readByte cycle executes inside a captured
\* window, after a captureOwnership call and before the matching
\* releaseOwnership call.  (The code violates it: chipErase is called by
\* loop() without capture, so its six writes run outside any window.)
C1_CyclesInsideWindow ==
    pc \in WriteBytePcs \cup ReadBytePcs => Captured

-----------------------------------------------------------------------------
(* C2 *)

\* C2: captureOwnership and releaseOwnership calls strictly alternate,
\* starting with a capture; a release is made by the command that made the
\* capture; nothing is held when a command character is about to be read;
\* a completed w or d command made exactly one capture and one release,
\* however the write command left its input loop.
C2_CaptureReleaseAlternate ==
    /\ \A k \in 1..Len(ownLog) :
          /\ ownLog[k][1] = IF k % 2 = 1 THEN "capture" ELSE "release"
          /\ k % 2 = 0 => ownLog[k][2] = ownLog[k - 1][2]
    /\ (CommandDone \/ AwaitingCommand) => Len(ownLog) % 2 = 0
    /\ CommandDone /\ cmd \in {Ord("w"), Ord("d")} =>
          /\ Cardinality({k \in 1..Len(ownLog) : ownLog[k][2] = ncmd}) = 2
          /\ ownLog[Len(ownLog)] = <<"release", ncmd>>
          /\ ownLog[Len(ownLog) - 1] = <<"capture", ncmd>>
    /\ CommandDone /\ cmd = Ord("w") =>
          EndedFull \/ EndedHighBreak \/ EndedLowBreak

\* a second write command has completed after a '*' in the low-nibble
\* position, and both commands captured and released
C2_Witness ==
    /\ CommandDone /\ cmd = Ord("w") /\ EndedLowBreak
    /\ ncmd = 2 /\ Len(ownLog) = 4

-----------------------------------------------------------------------------
(* C3 *)

\* C3: whenever a page write, page dump or chip erase has completed and
\* loop() is about to read the next command character, the hardware is in
\* the "external master owns bus" state.  (The code violates it after every
\* chip erase: chipErase never calls releaseOwnership.)
C3_ExternalOwnsAfterCommand ==
    (CommandDone \/ (AwaitingCommand /\ ncmd > 0)) /\ BusCommand
        => ExternalOwns

-----------------------------------------------------------------------------
(* C4 *)

\* setup() has returned and no command character has been read
SetupReturned == AwaitingCommand /\ ncmd = 0

\* C4 as claimed: when setup() returns the buses are inputs, CE, OE and WE
\* are high and the external master owns the bus.
C4_SetupExternalOwns ==
    SetupReturned =>
        /\ BusesInput
        /\ DrivenHigh(FLASH_CE) /\ DrivenHigh(FLASH_OE) /\ DrivenHigh(FLASH_WE)
        /\ DrivenLow(BUFFER_OE)
        /\ Clear(DDRD, FLASH_CE)

\* C4 as amended: when setup() returns the address and data ports are
\* inputs, CE, OE and WE are driven high, and the controller owns the bus:
\* the external buffer output is disabled (BUFFER_OE high) and CE is driven
\* by the controller.
C4_SetupControllerOwns ==
    SetupReturned =>
        /\ BusesInput
        /\ DrivenHigh(FLASH_CE) /\ DrivenHigh(FLASH_OE) /\ DrivenHigh(FLASH_WE)
        /\ ControllerOwns

C4_Witness == SetupReturned /\ PORTD = 60 /\ DDRD = 60

-----------------------------------------------------------------------------
(* C5 *)

\* C5: in every reachable state, register write by register write and from
\* the reset state, the controller never drives flash OE low and flash WE
\* low at the same time.  (The code violates it in setup(): DDRD makes the
\* four control pins outputs while their latches are still 0.)
C5_NeverOEandWE ==
    ~(DrivenLow(FLASH_OE) /\ DrivenLow(FLASH_WE))

-----------------------------------------------------------------------------
(* C6 *)

\* the statements a writeByte call returns to
AfterWriteByte == {"writePage_L108", "writePage_L109", "writePage_L112",
                   "writePage_L112_incr", "chipErase_L137", "chipErase_L138",
                   "chipErase_L139", "chipErase_L140", "chipErase_L141",
                   "chipErase_L142"}

\* the cycle log is that of a complete writeByte
WriteCycleDone == Len(cyc) = 8 /\ cyc[1][1] = "PORTD"

\* writeByte is executing on behalf of writePage
InWritePageByte ==
    /\ pc \in WriteBytePcs
    /\ stack # <<>>
    /\ Head(stack) \in {"writePage_L108", "writePage_L109", "writePage_L112",
                        "writePage_L112_incr"}

CtlMask == FLASH_CE + FLASH_OE + FLASH_WE

-----------------------------------------------------------------------------
(* C7 *)

WritePagePcs == {"writePage_L102", "writePage_L103", "writePage_L104",
                 "writePage_L107", "writePage_L108", "writePage_L109",
                 "writePage_L112", "writePage_L112_test", "writePage_L113",
                 "writePage_L112_incr", "writePage_L116", "writePage_L119",
                 "writePage_L120", "writePage_L121", "writePage_L122",
                 "writePage_L123", "writePage_L124"}

IsPrefix(s, t) == Len(s) <= Len(t) /\ \A k \in 1..Len(s) : s[k] = t[k]

\* the 131 write cycles of a page write
PageCycles(base, src) ==
    << <<"W", 21845, 170>>, <<"W", 10922, 85>>, <<"W", 21845, 160>> >>
    \o [k \in 1..PAGE_SIZE |-> <<"W", (base + k - 1) % 65536, src[k - 1]>>]

\* C7: writePage emits exactly 131 write cycles and nothing else: 0xAA at
\* 0x5555, 0x55 at 0x2AAA, 0xA0 at 0x5555, then byte[i] at base+i for
\* i = 0..127 in ascending order; then a delay of at least 10 ms; and only
\* then the address and data ports become inputs with zeroed latches.
C7_WritePageBus ==
    /\ (pc \in WritePagePcs \/ InWritePageByte) =>
          IsPrefix(bus, PageCycles(wp.address, wp.src) \o << <<"delay_ms", 10>> >>)
    /\ pc = "writePage_L116" =>
          /\ bus = PageCycles(wp.address, wp.src)
          /\ DDRA = 255 /\ DDRB = 255 /\ DDRC = 255
    /\ pc = "writePage_L119" =>
          /\ Len(bus) = PAGE_SIZE + 4
          /\ SubSeq(bus, 1, PAGE_SIZE + 3) = PageCycles(wp.address, wp.src)
          /\ bus[PAGE_SIZE + 4][1] = "delay_ms" /\ bus[PAGE_SIZE + 4][2] >= 10
          /\ DDRA = 255 /\ DDRB = 255 /\ DDRC = 255
    /\ pc = "writePageHex_L246" =>
          /\ Len(bus) = PAGE_SIZE + 4
          /\ SubSeq(bus, 1, PAGE_SIZE + 3) = PageCycles(wp.address, wp.src)
          /\ bus[PAGE_SIZE + 4][1] = "delay_ms"
          /\ BusesInput /\ BusesZero

\* writePage has returned from writing DE AD BE EF 00 .. 00 to page 3
C7_Witness ==
    /\ pc = "writePageHex_L246"
    /\ wp.address = 384 /\ wp.src[0] = 222 /\ wp.src[3] = 239
    /\ Len(bus) = PAGE_SIZE + 4 /\ bus[PAGE_SIZE + 3] = <<"W", 511, 0>>

-----------------------------------------------------------------------------
(* C8 *)

EraseCycles ==
    << <<"W", 21845, 170>>, <<"W", 10922, 85>>, <<"W", 21845, 128>>,
       <<"W", 21845, 170>>, <<"W", 10922, 85>>, <<"W", 21845, 16>> >>

\* C8: chipErase emits exactly six write cycles, 0xAA at 0x5555, 0x55 at
\* 0x2AAA, 0x80 at 0x5555, 0xAA at 0x5555, 0x55 at 0x2AAA, 0x10 at 0x5555,
\* and no other cycle, whatever command came before; then a delay of at
\* least 50 ms; and then the address and data ports become inputs.
C8_ChipEraseBus ==
    /\ pc = "chipErase_L142" =>
          /\ bus = EraseCycles
          /\ DDRA = 255 /\ DDRB = 255 /\ DDRC = 255
    /\ pc = "chipErase_L145" =>
          /\ Len(bus) = 7 /\ SubSeq(bus, 1, 6) = EraseCycles
          /\ bus[7][1] = "delay_ms" /\ bus[7][2] >= 50
          /\ DDRA = 255 /\ DDRB = 255 /\ DDRC = 255
    /\ CommandDone /\ cmd = Ord("e") =>
          /\ Len(bus) = 7 /\ SubSeq(bus, 1, 6) = EraseCycles
          /\ bus[7][1] = "delay_ms"
          /\ BusesInput

\* a chip erase has completed as the second command, after a page write
C8_Witness ==
    /\ CommandDone /\ cmd = Ord("e") /\ ncmd = 2
    /\ cmdLog[1].c = Ord("w") /\ cmdLog[1].p = 3
    /\ Len(bus) = 7

-----------------------------------------------------------------------------
(* C9, C10: what a write command carries *)

\* value of a hex digit, 0 for any other character
RefNibble(c) ==
    IF c \in 48..57 THEN c - 48
    ELSE IF c \in 65..70 THEN c - 55
    ELSE IF c \in 97..102 THEN c - 87
    ELSE 0

\* position of the first '*' of a payload, or one past its end
StarPos(pl) ==
    IF \E j \in 1..Len(pl) : pl[j] = 42
    THEN CHOOSE j \in 1..Len(pl) : pl[j] = 42 /\ \A m \in 1..(j - 1) : pl[m] # 42
    ELSE Len(pl) + 1

\* number of complete hex pairs in front of the '*'
NPairs(pl) == (StarPos(pl) - 1) \div 2

\* the page a payload stands for: its pairs, high nibble first, then zeros
RefDecode(pl) ==
    [j \in 0..(PAGE_SIZE - 1) |->
        IF j < NPairs(pl)
        THEN 16 * RefNibble(pl[2 * j + 1]) + RefNibble(pl[2 * j + 2])
        ELSE 0]

\* a dump of page p has completed, the last write or erase before it was a
\* write to page p
RoundTripDone ==
    /\ CommandDone /\ cmd = Ord("d")
    /\ \E j \in 1..(ncmd - 1) :
          /\ cmdLog[j].c = Ord("w") /\ cmdLog[j].p = page
          /\ \A m \in (j + 1)..(ncmd - 1) : cmdLog[m].c \notin {Ord("w"), Ord("e")}

\* C9: against the flash chip model, a write command for page p carrying
\* content B followed by a dump command for page p reads back exactly B,
\* byte for byte and in order.
C9_RoundTrip ==
    RoundTripDone =>
        /\ Len(bus) = PAGE_SIZE
        /\ \A k \in 1..PAGE_SIZE :
              bus[k] = <<"R", page * PAGE_SIZE + k - 1, RefDecode(payload)[k - 1]>>

\* page 3 was written with DE AD BE EF 00 .. and dumped
C9_Witness ==
    /\ RoundTripDone /\ page = 3
    /\ Len(bus) = PAGE_SIZE
    /\ bus[1] = <<"R", 384, 222>> /\ bus[4] = <<"R", 387, 239>>
    /\ bus[5] = <<"R", 388, 0>>

\* C10: the 128 bytes a write command passes to writePage, at base address
\* page*128, are the decoded hex pairs of its payload (high nibble first,
\* both cases accepted, a non-hex character counting as nibble 0) followed
\* by zeros; an unpaired nibble before the '*' is dropped; nothing but the
\* ready and progress messages is printed.  w3 DEADBEEF* writes DE AD BE EF
\* and 124 zeros at 0x0180.
C10_PayloadDecoded ==
    pc = "writePage_L102" =>
        /\ wp.address = page * PAGE_SIZE
        /\ wp.src = RefDecode(payload)
        /\ tx = <<"Ready\n\r\n", "Writing page ", DecStr(page) \o "\r\n">>
        /\ (payload = Bytes(PayDEADBEEF) /\ page = 3) =>
              /\ wp.address = 384
              /\ wp.src = [j \in 0..(PAGE_SIZE - 1) |->
                             IF j = 0 THEN 222 ELSE IF j = 1 THEN 173
                             ELSE IF j = 2 THEN 190 ELSE IF j = 3 THEN 239
                             ELSE 0]

\* writePage is entered with 127 decoded bytes and a zero: the payload was
\* 127 pairs, an unpaired nibble and the '*'
C10_Witness ==
    /\ pc = "writePage_L102"
    /\ Len(payload) = 2 * PAGE_SIZE /\ payload[2 * PAGE_SIZE] = 42
    /\ payload[2 * PAGE_SIZE - 1] = 57
    /\ wp.src[PAGE_SIZE - 2] = 59 /\ wp.src[PAGE_SIZE - 1] = 0

-----------------------------------------------------------------------------
(* C11 *)

\* a dump command has been read and has not yet returned to loop()'s end
DumpInProgress == cmd = Ord("d") /\ pc \notin {"loop_L301", "loop_L332"}

UpperHex == <<"0", "1", "2", "3", "4", "5", "6", "7",
              "8", "9", "A", "B", "C", "D", "E", "F">>

\* a byte as two upper-case hex digits and a space
RefHexPair(v) == UpperHex[(v \div 16) + 1] \o UpperHex[(v % 16) + 1] \o " "

\* position in tx of the pair of the k-th byte read, k in 1..128: three
\* entries of header, one entry per byte, one line end after every 16 bytes
PairPos(k) == 3 + k + ((k - 1) \div 16)

\* C11: a dump of page p performs exactly 128 read cycles, at p*128+i for
\* i = 0..127 in ascending order, and no write cycle: WE is never driven low
\* and the data port is never an output during the command; it prints the
\* 128 bytes sampled, in read order, as two upper-case hex digits each, in
\* exactly 8 lines of 16 pairs.
C11_DumpReadsAndPrints ==
    /\ DumpInProgress =>
          /\ ~DrivenLow(FLASH_WE) /\ Has(PORTD, FLASH_WE)
          /\ DDRC = 0
          /\ \A k \in 1..Len(bus) :
                bus[k][1] = "R" /\ bus[k][2] = page * PAGE_SIZE + k - 1
          /\ Len(bus) <= PAGE_SIZE
    /\ CommandDone /\ cmd = Ord("d") =>
          /\ Len(bus) = PAGE_SIZE
          /\ \A k \in 1..PAGE_SIZE :
                bus[k][1] = "R" /\ bus[k][2] = page * PAGE_SIZE + k - 1
          /\ Len(tx) = 3 + PAGE_SIZE + 8 + 1
          /\ \A k \in 1..PAGE_SIZE : tx[PairPos(k)] = RefHexPair(bus[k][3])
          /\ \A r \in 1..8 : tx[3 + 17 * r] = " \r\n"
          /\ tx[Len(tx)] = " \r\n"

\* page 3 of the factory content (80 81 82 ..) has been dumped
C11_Witness ==
    /\ CommandDone /\ cmd = Ord("d") /\ page = 3
    /\ bus[1] = <<"R", 384, 128>> /\ bus[PAGE_SIZE] = <<"R", 511, 255>>
    /\ tx[4] = "80 " /\ tx[PairPos(PAGE_SIZE)] = "FF "

-----------------------------------------------------------------------------
(* C12 *)

CapturePcs == {"captureOwnership_L157", "captureOwnership_L160",
               "captureOwnership_L163", "captureOwnership_L166",
               "captureOwnership_L167", "captureOwnership_L168",
               "captureOwnership_L169", "captureOwnership_L170",
               "captureOwnership_L171"}

\* the statements a captureOwnership call returns to
AfterCapture == {"writePageHex_L222", "dumpPage_L253"}

\* C12: from any state it is called in, captureOwnership ends with the
\* external buffer output disabled (BUFFER_OE high), CE a controller-driven
\* output, CE, WE and OE all high, and the address and data ports inputs
\* with zeroed latches; the buffer is disabled before any other line is
\* changed: the first register write changes BUFFER_OE alone, and the buffer
\* stays disabled during all the others.
C12_CaptureEndState ==
    /\ [](pc \in AfterCapture =>
            /\ DrivenHigh(BUFFER_OE)
            /\ Has(DDRD, FLASH_CE)
            /\ DrivenHigh(FLASH_CE) /\ DrivenHigh(FLASH_WE) /\ DrivenHigh(FLASH_OE)
            /\ BusesInput /\ BusesZero)
    /\ [](pc \in CapturePcs \ {"captureOwnership_L157"} => DrivenHigh(BUFFER_OE))
    /\ [][pc = "captureOwnership_L157" =>
            /\ BitAndNot(PORTD', BUFFER_OE) = BitAndNot(PORTD, BUFFER_OE)
            /\ reg' = [reg EXCEPT !.PORTD = PORTD']]_vars

\* a capture has returned that started from the state a chip erase leaves
\* behind after a release (CE an input with its pull-up on, buffer enabled)
C12_Witness ==
    /\ pc \in AfterCapture
    /\ ncmd = 3 /\ cmdLog[2].c = Ord("e") /\ cmdLog[1].c \in {Ord("w"), Ord("d")}

-----------------------------------------------------------------------------
(* C13 *)

ReleasePcs == {"releaseOwnership_L178", "releaseOwnership_L181",
               "releaseOwnership_L184", "releaseOwnership_L185",
               "releaseOwnership_L188", "releaseOwnership_L189",
               "releaseOwnership_L190", "releaseOwnership_L191",
               "releaseOwnership_L192", "releaseOwnership_L193",
               "releaseOwnership_L196"}

\* the statements a releaseOwnership call returns to
AfterRelease == {"writePageHex_L247", "dumpPage_L279"}

\* C13: releaseOwnership ends with WE high, OE low, CE an input with its
\* pull-up disabled, the address and data ports inputs with zeroed latches,
\* and the external buffer output enabled (BUFFER_OE low); the buffer is
\* enabled by the last register write only, when the ports are inputs.
C13_ReleaseEndState ==
    /\ pc \in AfterRelease =>
          /\ DrivenHigh(FLASH_WE) /\ DrivenLow(FLASH_OE)
          /\ Clear(DDRD, FLASH_CE) /\ Clear(PORTD, FLASH_CE)
          /\ BusesInput /\ BusesZero
          /\ DrivenLow(BUFFER_OE)
    /\ pc \in ReleasePcs => DrivenHigh(BUFFER_OE)
    /\ pc = "releaseOwnership_L196" => BusesInput /\ BusesZero

\* a release has returned at the end of a page write
C13_Witness ==
    /\ pc = "writePageHex_L247" /\ PORTD = 16 /\ DDRD = 56

-----------------------------------------------------------------------------
(* C14 *)

ChipErasePcs == {"chipErase_L129", "chipErase_L132", "chipErase_L133",
                 "chipErase_L134", "chipErase_L136", "chipErase_L137",
                 "chipErase_L138", "chipErase_L139", "chipErase_L140",
                 "chipErase_L141", "chipErase_L142", "chipErase_L145",
                 "chipErase_L146", "chipErase_L147", "chipErase_L148",
                 "chipErase_L149", "chipErase_L150"}

\* writePage or chipErase is running, writeByte calls included
SequencerRunning == pc \in WritePagePcs \cup ChipErasePcs \cup WriteBytePcs

\* readSerial is waiting for a payload byte that the stream does not hold
Starved == rx = <<>> /\ pc \in {"writePageHex_L229", "writePageHex_L234"}

\* C14: commands run one at a time to completion.  A command character is
\* read only at the top of loop(), with no call in progress; writePage and
\* chipErase read no serial input and always reach their delay and their
\* bus release; a w command consumes at most 256 payload characters and,
\* unless the stream stops supplying characters, returns, after which the
\* loop comes back to reading a command.
C14_RunToCompletion ==
    /\ [][Len(cmdLog') # Len(cmdLog) =>
            pc = "loop_L301" /\ stack = <<>>]_vars
    /\ [][SequencerRunning => rx' = rx]_vars
    /\ [](Len(payload) <= 2 * PAGE_SIZE)
    /\ (pc = "writePage_L102" ~> pc = "writePage_L116")
    /\ (pc = "writePage_L116" ~> pc = "writePageHex_L246")
    /\ (pc = "chipErase_L129" ~> pc = "chipErase_L142")
    /\ (pc = "chipErase_L142" ~> (CommandDone /\ cmd = Ord("e")))
    /\ (pc = "writePageHex_L218" ~> (CommandDone \/ Starved))
    /\ (CommandDone ~> AwaitingCommand)

\* a write command has returned after consuming 256 payload characters,
\* and the stream holds the next command
C14_Witness ==
    /\ CommandDone /\ cmd = Ord("w")
    /\ Len(payload) = 2 * PAGE_SIZE /\ rx # <<>>

-----------------------------------------------------------------------------
(* C15 *)

\* C15: whenever the controller has one of its address or data ports
\* configured as an output, the external buffer output is disabled
\* (BUFFER_OE high) and CE is a controller-driven output.  (The code
\* violates it: an e command after a w or d command runs chipErase with
\* the buffer still enabled and CE still an input.)
C15_DriveOnlyWhenOwned ==
    (DDRA # 0 \/ DDRB # 0 \/ DDRC # 0) =>
        DrivenHigh(BUFFER_OE) /\ Has(DDRD, FLASH_CE)

-----------------------------------------------------------------------------
(* C16 *)

\* a page load is under way: from the first unlock write of writePage to
\* its last byte load
PageLoading ==
    \/ InWritePageByte
    \/ pc \in {"writePage_L108", "writePage_L109", "writePage_L112",
               "writePage_L112_test", "writePage_L113", "writePage_L112_incr"}

\* C16: in a write command all serial reads happen before the first unlock
\* write: from the first write cycle of writePage to its last byte load
\* there is no serial read, no serial output, and nothing on the bus but
\* the write cycles of writeByte, one at a time.
C16_BufferThenWrite ==
    /\ [][PageLoading =>
            /\ rx' = rx /\ tx' = tx /\ payload' = payload
            /\ \/ bus' = bus
               \/ /\ pc = "writeByte_L58"
                  /\ bus' = Append(bus, <<"W", wb.address, wb.data>>)]_vars
    /\ [](PageLoading =>
            /\ tx = <<"Ready\n\r\n", "Writing page ", DecStr(page) \o "\r\n">>
            /\ Len(bus) <= PAGE_SIZE + 3
            /\ \A k \in 1..Len(bus) : bus[k][1] = "W")

\* the last byte of a page is being loaded while the stream already holds
\* the next command
C16_Witness ==
    /\ InWritePageByte /\ pc = "writeByte_L61"
    /\ Len(bus) = PAGE_SIZE + 3 /\ rx # <<>>

-----------------------------------------------------------------------------
(* C17 *)

\* C17: each readByte(a) of a dump writes, in this order: the address ports
\* to output; CE, OE and WE high; a on the address ports; (a 10 us delay;)
\* CE and OE low with WE high; a delay of at least 10 us; the data port
\* sampled while it is an input; CE and OE high; the address ports to input
\* with zeroed latches.  The byte returned is the flash cell at a, and the
\* direction of the data port is not touched.
C17_ReadByteCycle ==
    /\ pc = "dumpPage_L265" =>
          /\ Len(cyc) = 14
          /\ cyc[1] = <<"DDRA", 255>> /\ cyc[2] = <<"DDRB", 255>>
          /\ cyc[3][1] = "PORTD" /\ Has(cyc[3][2], CtlMask)
          /\ cyc[4] = <<"PORTA", rb.address % 256>>
          /\ cyc[5] = <<"PORTB", rb.address \div 256>>
          /\ cyc[6][1] = "delay_us"
          /\ cyc[7][1] = "PORTD"
          /\ Clear(cyc[7][2], FLASH_CE + FLASH_OE) /\ Has(cyc[7][2], FLASH_WE)
          /\ cyc[8][1] = "delay_us" /\ cyc[8][2] >= 10
          /\ cyc[9] = <<"PINC", rb.data>>
          /\ cyc[10][1] = "PORTD" /\ Has(cyc[10][2], CtlMask)
          /\ cyc[11] = <<"DDRA", 0>> /\ cyc[12] = <<"DDRB", 0>>
          /\ cyc[13] = <<"PORTA", 0>> /\ cyc[14] = <<"PORTB", 0>>
          /\ rb.data = FlashCell(flash, rb.address)
          /\ bus[Len(bus)] = <<"R", rb.address, rb.data>>
    /\ pc \in ReadBytePcs => DDRC = 0
    /\ pc \in {"readByte_L83", "readByte_L86"} =>
          /\ DrivenLow(FLASH_CE) /\ DrivenLow(FLASH_OE) /\ DrivenHigh(FLASH_WE)
          /\ DDRA = 255 /\ DDRB = 255 /\ AddrBus = rb.address

\* the read of the fourth byte of page 3, written before as DE AD BE EF 00 ..
C17_Witness ==
    /\ pc = "dumpPage_L265" /\ rb.address = 387 /\ rb.data = 239
    /\ Len(cyc) = 14

-----------------------------------------------------------------------------
(* C18 *)

\* C18: a write command consumes its payload up to and including the
\* terminating '*', so the next character dispatched as a command is the
\* one after the '*', also for a payload of exactly 128 pairs followed by
\* '*'.  (The code violates it: after 128 pairs the input loop ends without
\* reading the '*', which loop() then takes as a command.)
C18_SentinelConsumed ==
    /\ CommandDone /\ cmd = Ord("w") =>
          \/ payload # <<>> /\ payload[Len(payload)] = Ord("*")
          \/ rx = <<>>
          \/ Head(rx) # Ord("*")
    /\ \A k \in 2..ncmd :
          cmdLog[k - 1].c = Ord("w") => cmdLog[k].c # Ord("*")

-----------------------------------------------------------------------------
(* C19 *)

\* the states in which a readByte or writeByte cycle holds CE asserted
AssertPhase == pc \in {"writeByte_L61", "writeByte_L63",
                       "readByte_L83", "readByte_L86", "readByte_L88"}

\* C19: the controller drives CE low (pin an output, latch 0) only during
\* the assert phase of a readByte or writeByte cycle; no step of setup,
\* captureOwnership or releaseOwnership drives it low.  (The code violates
\* it twice: setup() makes CE an output while its latch is 0, and so does
\* captureOwnership after a release, there with OE low as well.)
C19_CELowOnlyInCycle ==
    DrivenLow(FLASH_CE) => AssertPhase

-----------------------------------------------------------------------------
(* C20 *)

\* the page index of selector character c
RefPage(c) == IF c >= 48 THEN c - 48 ELSE c + 208

\* address a lies in the 128-byte page pg
InPage(a, pg) == a >= pg * 128 /\ a <= pg * 128 + 127

\* C20: for a page selector c the page index is (c - 48) mod 256; every
\* address of a write or dump is page*128 + i with 0 <= i <= 127, lies in
\* 0..32767 and in its own page, the base is a multiple of 128, nothing
\* overflows a 16-bit int or wraps a 16-bit address; the 8-bit counter of
\* writePage takes the values 0..127 and the loop ends.
C20_PageAddressing ==
    /\ pc \in {"loop_L310", "loop_L315"} =>
          /\ page = RefPage(cmdLog[ncmd].s)
          /\ page \in 0..255
          /\ page * PAGE_SIZE <= 32767
    /\ pc \in WritePagePcs =>
          /\ wp.address = page * 128
          /\ wp.address % 128 = 0
          /\ wp.address + 127 <= 32767
    /\ pc = "writePage_L113" =>
          /\ wp.i \in 0..127
          /\ wp.i = Len(bus) - 3
          /\ InPage(wp.address + wp.i, page)
    /\ pc = "writePage_L116" => wp.i = 128 /\ Len(bus) = 131
    /\ pc = "dumpPage_L261" =>
          /\ dp.i \in 0..127
          /\ page * PAGE_SIZE + dp.i <= 32767
    /\ (cmd \in {Ord("w"), Ord("d")} /\ pc # "loop_L301") =>
          \A k \in 1..Len(bus) :
             (bus[k][1] = "R" \/ (bus[k][1] = "W" /\ k > 3)) =>
                /\ InPage(bus[k][2], page)
                /\ bus[k][2] \in 0..32767
                /\ bus[k][2] = page * 128 + (IF bus[k][1] = "W" THEN k - 4
                                             ELSE k - 1)

\* the last byte of page 255 (selector '/', one below '0') is about to be
\* written at 32767
C20_Witness ==
    /\ pc = "writePage_L113" /\ page = 255 /\ cmdLog[ncmd].s = 47
    /\ wp.i = 127 /\ wp.address + wp.i = 32767

====
